---- MODULE Spec2Model ----
(***************************************************************************)
(* Model of demo.py: class DocumentProcessor.  One Python thread runs     *)
(* main(user, resource) or calls a public method directly; the MongoDB    *)
(* collection and the OpenFGA tuple store are external state that        *)
(* outlives one run of the script.  Every call of an external service     *)
(* (Azure OpenAI, MongoDB, OpenFGA, unstructured) either answers or       *)
(* raises; the code has no try/except, so an exception ends the call      *)
(* chain.                                                                  *)
(***************************************************************************)
EXTENDS Integers, Sequences, FiniteSets, TLC

VARIABLES
    coll,      \* documents of the MongoDB collection, in insertion order
    tuples,    \* relationship tuples of the OpenFGA store: <<user, relation, object>>
    pc,        \* position of main: "idle" (not running), a step of MainOrder, "done", "failed"
    margs,     \* arguments of the running main: [user, resource]
    call,      \* method being executed: "none", "partition_pdf", "search_tool"
    ppc,       \* position within partition_pdf: "none", "delete", "partition", "insert", "returned"
    resource,  \* argument of the running (or last) partition_pdf
    elements,  \* elements of partition(resource) not yet inserted
    suser,     \* USER_ID of the running search_tool
    stext,     \* text of the running search_tool
    spc,       \* position within search_tool: "none", "aggregate", "loop", "returned"
    cursor,    \* documents of the aggregate cursor
    pos,       \* number of cursor documents the for loop has consumed
    out,       \* lines printed by the running (or last) search_tool
    out1,      \* lines printed by the first search_tool of the running main
    err,       \* exception that ended the last call chain, "none" if none
    lastCheck, \* outcome of the last check_authorization: "none", "allowed", "denied", "unavailable", "no_decision"
    faults,    \* an external service failed during the current call chain
    preSources,\* sources present in the collection when the running (or last) partition_pdf was entered
    inserted,  \* number of insert_one calls of the running (or last) partition_pdf that succeeded
    setupDone, \* fga_setup of the running main has returned
    wrote      \* tuple keys written by add_tuple since the current call chain began

vars == <<coll, tuples, pc, margs, call, ppc, resource, elements, suser, stext,
          spc, cursor, pos, out, out1, err, lastCheck, faults, preSources, inserted,
          setupDone, wrote>>

(* ------------------------------ bounds -------------------------------- *)
MaxElems == 6      \* most elements partition() yields for one document
MaxPre == 6        \* most documents in the collection before the first call
MaxBody == 1       \* most elements of one document whose text is "body"

(* ----------------------------- constants ------------------------------ *)
Limit == 5             \* "limit": 5 of $vectorSearch
NumCandidates == 30    \* "numCandidates": 30 of $vectorSearch

Users == {"demo_user"}
Resources == {"demo.pdf", "other.pdf"}
Texts == {"intro", "body"}
Queries == {"test"}

Denyme(user) == user \o "-denyme"
Subjects == Users \cup {Denyme(u) : u \in Users}

NoArgs == [user |-> "", resource |-> ""]

Min(a, b) == IF a < b THEN a ELSE b

SeqsUpTo(S, n) == UNION {[1..k -> S] : k \in 0..n}

(* -------------------------- external services ------------------------- *)
\* az_client.embeddings.create(...).data[0].embedding: a vector fixed by the text
Embed(text) ==
    CASE text = "test"  -> 1
      [] text = "intro" -> 1
      [] text = "body"  -> 3
      [] OTHER          -> 0

generate_embeddings(text) == Embed(text)

\* similarity of two vectors: the closer, the higher
Similarity(v, w) == IF v < w THEN v - w ELSE w - v

\* document written by insert_one
NewDoc(text, res) ==
    [text |-> text, embeddings |-> generate_embeddings(text), source |-> res]

\* {"$project": {"_id": 0, "embeddings": 0, "metadata": 0}}
Project(doc) == [text |-> doc.text, source |-> doc.source]

\* documents of c ordered by descending similarity to qv, ties in insertion order
Ranked(c, qv) ==
    LET n == Len(c)
        sim == [i \in 1..n |-> Similarity(c[i].embeddings, qv)]
        Before(i, j) == sim[i] > sim[j] \/ (sim[i] = sim[j] /\ i < j)
        rank == [i \in 1..n |-> 1 + Cardinality({j \in 1..n : Before(j, i)})]
    IN [k \in 1..n |-> c[CHOOSE i \in 1..n : rank[i] = k]]

\* mutant: the documents are cut to limit without being ranked
VectorSearchUnranked(c, qv, limit, numCandidates) ==
    SubSeq(c, 1, Min(limit, Len(c)))

\* the $vectorSearch stage: the nearest numCandidates, of which the best limit
VectorSearch(c, qv, limit, numCandidates) ==
    LET near == SubSeq(Ranked(c, qv), 1, Min(numCandidates, Len(c)))
    IN SubSeq(near, 1, Min(limit, Len(near)))

\* mutant: the stage is cut at numCandidates instead of limit
AggregateAllCandidates(c, text) ==
    LET found == VectorSearch(c, Embed(text), NumCandidates, NumCandidates)
    IN [k \in 1..Len(found) |-> Project(found[k])]

\* the aggregate pipeline of search_tool
Aggregate(c, text) ==
    LET found == VectorSearch(c, Embed(text), Limit, NumCandidates)
    IN [k \in 1..Len(found) |-> Project(found[k])]

\* mutant: the object is written without its "doc:" type
WriteKeyNoType(user, res) == <<"user:" \o user, "viewer", res>>

\* tuple_key of add_tuple
WriteKey(user, res) == <<"user:" \o user, "viewer", "doc:" \o res>>

\* tuple_key of search_tool
CheckKey(user, doc) == <<"user:" \o user, "viewer", "doc:" \o doc.source>>

\* the decision of the OpenFGA store on a tuple key
Allowed(key) == key \in tuples

(* ------------------------------- main --------------------------------- *)
\* mutant: the document is ingested before the tuple is written
MainOrderPartitionFirst == <<"partition_pdf", "fga_setup", "sleep", "search1", "search2">>

\* the statements of main, in order
MainOrder == <<"fga_setup", "partition_pdf", "sleep", "search1", "search2">>

MainIndex(p) == CHOOSE i \in 1..Len(MainOrder) : MainOrder[i] = p

AfterStep(p) ==
    IF MainIndex(p) = Len(MainOrder) THEN "done" ELSE MainOrder[MainIndex(p) + 1]

InMain == \E i \in 1..Len(MainOrder) : MainOrder[i] = pc

\* nothing is running: the caller may start main or call a method
Quiet == call = "none" /\ pc \in {"idle", "done", "failed"}

searchVars == <<suser, stext, spc, cursor, pos, out, lastCheck>>
partVars == <<ppc, resource, elements, preSources, inserted>>

\* what every new call chain starts from
FreshChain ==
    /\ err' = "none"
    /\ faults' = FALSE
    /\ out1' = <<>>
    /\ setupDone' = FALSE
    /\ wrote' = {}
    /\ ppc' = "none"
    /\ resource' = ""
    /\ elements' = <<>>
    /\ preSources' = {}
    /\ inserted' = 0

\* an exception leaves the method and, uncaught, main
Raise(e) ==
    /\ err' = e
    /\ faults' = TRUE
    /\ call' = "none"
    /\ pc' = IF InMain THEN "failed" ELSE pc

\* the method returns to its caller; main goes on to its next statement
Return ==
    /\ call' = "none"
    /\ pc' = IF InMain THEN AfterStep(pc) ELSE pc

\* collections another run, or another writer, may have left behind
PreDocs == {NewDoc("body", "demo.pdf"), NewDoc("intro", "other.pdf")}

PreCollections == SeqsUpTo(PreDocs, MaxPre)

\* tuple stores before the first call: empty, or one tuple written earlier
PreTuples == {{}} \cup {{WriteKey(s, r)} : s \in Subjects, r \in Resources}

Init ==
    /\ coll \in PreCollections
    /\ tuples \in PreTuples
    /\ pc = "idle"
    /\ margs = NoArgs
    /\ call = "none"
    /\ ppc = "none"
    /\ resource = ""
    /\ elements = <<>>
    /\ suser = ""
    /\ stext = ""
    /\ spc = "none"
    /\ cursor = <<>>
    /\ pos = 0
    /\ out = <<>>
    /\ out1 = <<>>
    /\ err = "none"
    /\ lastCheck = "none"
    /\ faults = FALSE
    /\ preSources = {}
    /\ inserted = 0
    /\ setupDone = FALSE
    /\ wrote = {}

(* ------------------------------ fga_setup ----------------------------- *)
FgaOutcomes == {"ok", "error_json", "raise"}

\* mutant: the write grants the relation to every subject
add_tuple_everyone(user, res, outcome) ==
    IF outcome = "ok" THEN tuples \cup {WriteKey(s, res) : s \in Subjects} ELSE tuples

\* the store after add_tuple: the write is applied when OpenFGA accepts it
add_tuple(user, res, outcome) ==
    IF outcome = "ok" THEN tuples \cup {WriteKey(user, res)} ELSE tuples

\* fga_setup(user, res): one POST; an error body is printed like any other
\* response, a failed connection raises
fga_setup(user, res, outcome) ==
    /\ tuples' = add_tuple(user, res, outcome)
    /\ wrote' = (tuples' \ tuples)
    /\ IF outcome = "raise"
         THEN Raise("ConnectionError") /\ setupDone' = FALSE
         ELSE /\ Return
              /\ setupDone' = TRUE
              /\ err' = err
              /\ faults' = (faults \/ outcome # "ok")

(* ---------------------------- partition_pdf --------------------------- *)
\* mutant: delete_one in place of delete_many
DeleteOne(c) == IF c = <<>> THEN <<>> ELSE Tail(c)

\* mutant: the filter {"source": resource} in place of {}
DeleteManyOfResource(c) == SelectSeq(c, LAMBDA d : d.source # resource)

\* mdb_collection.delete_many({}): the empty filter matches every document
DeleteMany(c) == <<>>

Sources(c) == {c[i].source : i \in 1..Len(c)}

Documents ==
    {d \in SeqsUpTo(Texts, MaxElems) :
        Cardinality({i \in 1..Len(d) : d[i] = "body"}) <= MaxBody}

EnterPartition(res) ==
    /\ call' = "partition_pdf"
    /\ ppc' = "delete"
    /\ resource' = res
    /\ elements' = <<>>
    /\ preSources' = Sources(coll)
    /\ inserted' = 0

PartitionDelete ==
    /\ call = "partition_pdf"
    /\ ppc = "delete"
    /\ \/ /\ coll' = DeleteMany(coll)
          /\ ppc' = "partition"
          /\ UNCHANGED <<pc, call, err, faults>>
       \/ /\ Raise("PyMongoError")
          /\ UNCHANGED <<coll, ppc>>
    /\ UNCHANGED <<tuples, margs, resource, elements, preSources, inserted,
                   searchVars, out1, setupDone, wrote>>

\* elements = partition(resource)
PartitionParse ==
    /\ call = "partition_pdf"
    /\ ppc = "partition"
    /\ \/ /\ elements' \in Documents
          /\ ppc' = "insert"
          /\ UNCHANGED <<pc, call, err, faults>>
       \/ /\ Raise("PartitionError")
          /\ UNCHANGED <<elements, ppc>>
    /\ UNCHANGED <<coll, tuples, margs, resource, preSources, inserted,
                   searchVars, out1, setupDone, wrote>>

\* one turn of the for loop: embed the element, insert the document
PartitionInsert ==
    /\ call = "partition_pdf"
    /\ ppc = "insert"
    /\ elements # <<>>
    /\ \/ /\ coll' = Append(coll, NewDoc(Head(elements), resource))
          /\ elements' = Tail(elements)
          /\ inserted' = inserted + 1
          /\ UNCHANGED <<pc, call, err, faults>>
       \/ /\ Raise("EmbeddingError")
          /\ UNCHANGED <<coll, elements, inserted>>
    /\ UNCHANGED <<tuples, margs, ppc, resource, preSources,
                   searchVars, out1, setupDone, wrote>>

\* the for loop is over: partition_pdf returns
PartitionReturn ==
    /\ call = "partition_pdf"
    /\ ppc = "insert"
    /\ elements = <<>>
    /\ ppc' = "returned"
    /\ Return
    /\ UNCHANGED <<coll, tuples, margs, resource, elements, preSources, inserted,
                   searchVars, out1, err, faults, setupDone, wrote>>

(* ----------------------------- search_tool ---------------------------- *)
CheckOutcomes == {"answer", "no_decision", "unavailable"}

\* response.json() of check_authorization: the decision, or an error body
check_authorization(key, outcome) ==
    IF outcome = "answer"
      THEN [allowed |-> Allowed(key)]
      ELSE [code |-> "internal_error"]

\* mutant: the branches of the if are swapped
PrintLineInverted(response, user, doc) ==
    IF response.allowed
      THEN [kind |-> "Access Denied", user |-> user, source |-> doc.source]
      ELSE [kind |-> "Access Granted", user |-> user, source |-> doc.source]

\* the line search_tool prints for a document
PrintLine(response, user, doc) ==
    IF response.allowed
      THEN [kind |-> "Access Granted", user |-> user, source |-> doc.source]
      ELSE [kind |-> "Access Denied", user |-> user, source |-> doc.source]

\* mutant: the cursor is walked from its end
NextDocReversed(cur, p) == cur[Len(cur) - p]

\* the document the for loop takes after p documents
NextDoc(cur, p) == cur[p + 1]

EnterSearch(text, user) ==
    /\ call' = "search_tool"
    /\ stext' = text
    /\ suser' = user
    /\ spc' = "aggregate"
    /\ cursor' = <<>>
    /\ pos' = 0
    /\ out' = <<>>
    /\ lastCheck' = "none"

\* embed the query and run the aggregate
SearchAggregate ==
    /\ call = "search_tool"
    /\ spc = "aggregate"
    /\ \/ /\ cursor' = Aggregate(coll, stext)
          /\ spc' = "loop"
          /\ UNCHANGED <<pc, call, err, faults>>
       \/ /\ Raise("EmbeddingError")
          /\ UNCHANGED <<cursor, spc>>
    /\ UNCHANGED <<coll, tuples, margs, partVars, suser, stext, pos, out,
                   lastCheck, out1, setupDone, wrote>>

\* one turn of the for loop: check the document, print the line
SearchCheck ==
    /\ call = "search_tool"
    /\ spc = "loop"
    /\ pos < Len(cursor)
    /\ \E outcome \in CheckOutcomes :
         LET doc == NextDoc(cursor, pos)
             response == check_authorization(CheckKey(suser, doc), outcome)
         IN IF outcome = "unavailable"
              THEN /\ Raise("ConnectionError")
                   /\ lastCheck' = "unavailable"
                   /\ UNCHANGED <<out, pos>>
              ELSE IF "allowed" \notin DOMAIN response
                THEN /\ Raise("KeyError")
                     /\ lastCheck' = "no_decision"
                     /\ UNCHANGED <<out, pos>>
                ELSE /\ out' = Append(out, PrintLine(response, suser, doc))
                     /\ pos' = pos + 1
                     /\ lastCheck' = IF response.allowed THEN "allowed" ELSE "denied"
                     /\ UNCHANGED <<pc, call, err, faults>>
    /\ UNCHANGED <<coll, tuples, margs, partVars, suser, stext, spc, cursor,
                   out1, setupDone, wrote>>

\* the cursor is exhausted: search_tool returns (None)
SearchReturn ==
    /\ call = "search_tool"
    /\ spc = "loop"
    /\ pos = Len(cursor)
    /\ spc' = "returned"
    /\ Return
    /\ UNCHANGED <<coll, tuples, margs, partVars, suser, stext, cursor, pos, out,
                   lastCheck, out1, err, faults, setupDone, wrote>>

(* -------------------------------- main -------------------------------- *)
\* asyncio.run(dp.main(user, resource))
CallMain(user, res) ==
    /\ Quiet
    /\ pc' = MainOrder[1]
    /\ margs' = [user |-> user, resource |-> res]
    /\ FreshChain
    /\ suser' = ""
    /\ stext' = ""
    /\ spc' = "none"
    /\ cursor' = <<>>
    /\ pos' = 0
    /\ out' = <<>>
    /\ lastCheck' = "none"
    /\ UNCHANGED <<coll, tuples, call>>

\* self.fga_setup(user, resource)
MainFgaSetup ==
    /\ pc = "fga_setup"
    /\ call = "none"
    /\ \E outcome \in FgaOutcomes : fga_setup(margs.user, margs.resource, outcome)
    /\ UNCHANGED <<coll, margs, partVars, searchVars, out1>>

\* self.partition_pdf(resource)
MainPartitionPdf ==
    /\ pc = "partition_pdf"
    /\ call = "none"
    /\ EnterPartition(margs.resource)
    /\ UNCHANGED <<coll, tuples, pc, margs, searchVars, out1, err, faults,
                   setupDone, wrote>>

\* await asyncio.sleep(15): the index catches up with the collection
MainSleep ==
    /\ pc = "sleep"
    /\ call = "none"
    /\ pc' = AfterStep(pc)
    /\ UNCHANGED <<coll, tuples, margs, call, partVars, searchVars, out1, err,
                   faults, setupDone, wrote>>

\* self.search_tool("test", user)
MainSearch1 ==
    /\ pc = "search1"
    /\ call = "none"
    /\ EnterSearch("test", margs.user)
    /\ UNCHANGED <<coll, tuples, pc, margs, partVars, out1, err, faults,
                   setupDone, wrote>>

\* self.search_tool("test", user+"-denyme")
MainSearch2 ==
    /\ pc = "search2"
    /\ call = "none"
    /\ out1' = out
    /\ EnterSearch("test", Denyme(margs.user))
    /\ UNCHANGED <<coll, tuples, pc, margs, partVars, err, faults,
                   setupDone, wrote>>

\* a direct call dp.search_tool(text, USER_ID)
CallSearchTool(text, user) ==
    /\ Quiet
    /\ pc' = "idle"
    /\ margs' = NoArgs
    /\ FreshChain
    /\ EnterSearch(text, user)
    /\ UNCHANGED <<coll, tuples>>

Next ==
    \/ \E u \in Users, r \in Resources : CallMain(u, r)
    \/ MainFgaSetup
    \/ MainPartitionPdf
    \/ PartitionDelete
    \/ PartitionParse
    \/ PartitionInsert
    \/ PartitionReturn
    \/ MainSleep
    \/ MainSearch1
    \/ MainSearch2
    \/ \E q \in Queries, s \in Subjects : CallSearchTool(q, s)
    \/ SearchAggregate
    \/ SearchCheck
    \/ SearchReturn

Spec == Init /\ [][Next]_vars

(* ------------------------- helpers of the claims ---------------------- *)
IsGranted(line) == line.kind = "Access Granted"

GrantedLines(lines) == SelectSeq(lines, IsGranted)

\* the subject of the line may view the source of the line
LineAllowed(line) == Allowed(CheckKey(line.user, line))

\* the ranked list of the index for the running query
RankedNow == Ranked(coll, Embed(stext))

\* the subject of the running query may view the document
DocAllowed(doc) == Allowed(CheckKey(suser, doc))

SourcesOf(seq) == [i \in 1..Len(seq) |-> seq[i].source]

Searched == spc \in {"loop", "returned"}

\* documents of c that do not belong to source res
OtherDocs(c, res) == SelectSeq(c, LAMBDA d : d.source # res)

(* -------------------------------- C1 ---------------------------------- *)
\* C1 as stated: no line search_tool puts out concerns a candidate whose
\* check returned allowed=false; everything disclosed is allowed.
C1_NoDeniedDisclosed ==
    \A i \in 1..Len(out) : LineAllowed(out[i])

\* C1 amended: a line reports "Access Granted" only for a source the check
\* allowed, and every candidate the check denied is reported by an
\* "Access Denied" line naming its source; a line never carries chunk text.
C1_GrantedOnlyIfAllowed ==
    /\ \A i \in 1..Len(out) :
         /\ IsGranted(out[i]) <=> LineAllowed(out[i])
         /\ DOMAIN out[i] = {"kind", "user", "source"}
    /\ \A i \in 1..Len(out1) : IsGranted(out1[i]) <=> LineAllowed(out1[i])

C1_Witness ==
    /\ spc = "returned"
    /\ \E i, j \in 1..Len(out) :
         /\ IsGranted(out[i])
         /\ ~IsGranted(out[j])
         /\ ~LineAllowed(out[j])

(* -------------------------------- C2 ---------------------------------- *)
\* C2: a check that fails (service unavailable, answer without a decision)
\* counts as a denial of that candidate and search_tool still completes
\* without raising.
C2_FailClosedCompletes ==
    lastCheck \in {"unavailable", "no_decision"} =>
        /\ err = "none"
        /\ \A i \in 1..Len(out) : IsGranted(out[i]) => LineAllowed(out[i])

(* -------------------------------- C3 ---------------------------------- *)
\* C3: search_tool never reports more than limit (5) results, whatever the
\* size of the collection and whatever the decisions.
C3_AtMostLimit ==
    /\ Len(GrantedLines(out)) <= Limit
    /\ Len(GrantedLines(out1)) <= Limit
    /\ Len(cursor) <= Limit

C3_Witness ==
    /\ spc = "returned"
    /\ Len(coll) > Limit
    /\ Len(GrantedLines(out)) = Limit

(* -------------------------------- C4 ---------------------------------- *)
\* C4: the lines come out in the similarity rank order of the index: the
\* i-th line is for the i-th ranked document, so the granted documents keep
\* their relative rank order and a second run prints the same sequence.
C4_RankOrder ==
    Searched =>
        LET ranked == RankedNow
        IN /\ Len(out) = pos
           /\ Len(out) <= Len(ranked)
           /\ \A i \in 1..Len(out) : out[i].source = ranked[i].source

C4_Witness ==
    /\ spc = "returned"
    /\ Len(out) >= 2
    /\ out[1].source # out[2].source
    /\ IsGranted(out[1])
    /\ IsGranted(out[2])
    /\ SourcesOf(RankedNow) # SourcesOf(coll)

(* -------------------------------- C5 ---------------------------------- *)
\* number of documents among the first k of the ranked list the subject may view
AllowedAmong(k) ==
    LET ranked == RankedNow
    IN Cardinality({i \in 1..Min(k, Len(ranked)) : DocAllowed(ranked[i])})

\* C5 as stated: with over-fetch and backfill up to the ceiling, a finished
\* search reports the authorized documents of the fetched window until limit
\* is reached: as many results as the window of overfetchFactor*limit (30)
\* candidates allows.
C5_BackfillReturns ==
    spc = "returned" =>
        Len(GrantedLines(out)) = Min(Limit, AllowedAmong(NumCandidates))

\* C5 amended: search_tool checks the top limit (5) documents of the ranked
\* list, once; a finished search reports exactly the authorized documents
\* among those 5, an authorized document ranked lower is not reported, and a
\* shortfall ends the search without an exception.
C5_TopLimitOnly ==
    /\ Searched =>
         LET ranked == RankedNow
         IN cursor = [i \in 1..Min(Limit, Len(coll)) |-> Project(ranked[i])]
    /\ spc = "returned" =>
         /\ Len(out) = Min(Limit, Len(coll))
         /\ Len(GrantedLines(out)) = AllowedAmong(Limit)
         /\ err = "none"

C5_Witness ==
    /\ spc = "returned"
    /\ Len(coll) > Limit
    /\ DocAllowed(RankedNow[Limit + 1])
    /\ Len(GrantedLines(out)) < Limit
    /\ err = "none"

(* -------------------------------- C6 ---------------------------------- *)
\* C6: when main has run with every service answering and a document of at
\* least one element, it ends without error, its first query (as user)
\* reports at least one result, all of that document, and its second query
\* (as user-denyme, who has no tuple) reports none.
C6_DemoScenario ==
    (pc \in {"done", "failed"} /\ ~faults) =>
        /\ pc = "done"
        /\ err = "none"
        /\ inserted >= 1 =>
             /\ Len(GrantedLines(out1)) >= 1
             /\ \A i \in 1..Len(out1) :
                  out1[i].source = margs.resource /\ out1[i].user = margs.user
        /\ WriteKey(Denyme(margs.user), margs.resource) \notin tuples =>
             /\ GrantedLines(out) = <<>>
             /\ Len(out) = Min(Limit, inserted)

C6_Witness ==
    /\ pc = "done"
    /\ ~faults
    /\ margs = [user |-> "demo_user", resource |-> "demo.pdf"]
    /\ Len(GrantedLines(out1)) >= 1
    /\ Len(out) >= 1
    /\ GrantedLines(out) = <<>>
    /\ suser = "demo_user-denyme"

(* -------------------------------- C7 ---------------------------------- *)
\* a step adds no tuple but the one of the owner main was called with
TupleOnlyForOwner ==
    /\ tuples \subseteq tuples'
    /\ \A k \in tuples' \ tuples :
         pc = "fga_setup" /\ k = WriteKey(margs.user, margs.resource)

\* a subject without a viewer tuple on a source is reported no document of it
NoTupleNoGrant ==
    \A s \in Subjects, x \in Resources :
        WriteKey(s, x) \notin tuples =>
            \A i \in 1..Len(out) : ~(out[i].user = s /\ out[i].source = x /\ IsGranted(out[i]))

\* C7: a subject that has no viewer tuple on a source is never reported a
\* document of it, however often the source is ingested again for another
\* owner; no step adds a tuple for anyone but the owner main was called with.
C7_IdempotentDenial == [][TupleOnlyForOwner]_vars /\ []NoTupleNoGrant

C7_Witness ==
    /\ pc = "done"
    /\ resource \in preSources
    /\ WriteKey(suser, resource) \notin tuples
    /\ suser # margs.user
    /\ Len(out) >= 1
    /\ \A i \in 1..Len(out) : out[i].source = resource /\ ~IsGranted(out[i])

(* -------------------------------- C8 ---------------------------------- *)
\* C8 as stated: the tuple main writes for (owner, resource) exists only
\* once partition_pdf has persisted every chunk and returned.
C8_TupleAfterChunks ==
    (margs # NoArgs /\ wrote # {}) => ppc = "returned"

\* C8 amended: main calls fga_setup first; partition_pdf is entered only
\* after fga_setup has returned, and from then on this run writes no tuple.
C8_TupleBeforeChunks ==
    (margs # NoArgs /\ ppc # "none") =>
        /\ setupDone
        /\ wrote \subseteq {WriteKey(margs.user, margs.resource)}
        /\ wrote \subseteq tuples

C8_Witness ==
    /\ pc = "failed"
    /\ ppc = "partition"
    /\ wrote = {WriteKey(margs.user, margs.resource)}
    /\ coll = <<>>

(* -------------------------------- C9 ---------------------------------- *)
\* C9 as stated: an ingestion that fails before its first chunk is written
\* leaves the chunks that were there before in the collection.
C9_DeleteDeferred ==
    (err # "none" /\ ppc \in {"delete", "partition", "insert"}
       /\ inserted = 0 /\ preSources # {}) => coll # <<>>

\* C9 amended: partition_pdf empties the collection before it partitions;
\* once delete_many has succeeded the collection holds exactly the chunks
\* this call has inserted, none if it failed before the first insert.
C9_DeleteFirst ==
    ppc \in {"partition", "insert", "returned"} =>
        /\ Len(coll) = inserted
        /\ (ppc = "partition" => coll = <<>>)

C9_Witness ==
    /\ err = "PartitionError"
    /\ preSources # {}
    /\ inserted = 0
    /\ coll = <<>>

(* -------------------------------- C10 --------------------------------- *)
\* C10 as stated: partition_pdf(X) leaves every document of another source
\* as it was.
C10_DeleteScoped ==
    [][call = "partition_pdf" => OtherDocs(coll', resource) = OtherDocs(coll, resource)]_vars

\* C10 amended: partition_pdf(X) removes the documents of every source; once
\* delete_many has succeeded the collection holds documents of X only.
C10_DeleteAll ==
    ppc \in {"partition", "insert", "returned"} =>
        \A i \in 1..Len(coll) : coll[i].source = resource

C10_Witness ==
    /\ ppc = "returned"
    /\ preSources \ {resource} # {}
    /\ Sources(coll) = {resource}

====
